---- MODULE Spec2Model ----
(***************************************************************************)
(* PZEM004T V3.0 driver (code/espurna/sensors/PZEM004TV30Sensor.h):        *)
(* Modbus-RTU request builder, CRC16, the timed read loop of               *)
(* modbusProcess, the reading decoder, the energy delta and the pre() /    *)
(* PZ.ADDRESS orchestration, together with the peripheral and the serial   *)
(* line they talk to.                                                      *)
(*                                                                         *)
(* Numbers.  Bytes are 0..255.  Every double of the driver is kept as an   *)
(* integer count of thousandths of its unit (230.0 V is 230000, 12.345 kWh *)
(* is 12345), which is exact for every value the decoder can produce.      *)
(* The clock is the millisecond CoreClock; the model counts clock readings *)
(* 0..MaxTime and takes differences over the integers.                     *)
(***************************************************************************)
EXTENDS Integers, Sequences, FiniteSets, TLC

\* ---------------------------------------------------------------- bounds
\* last clock reading of a behaviour
MaxTime == 3
\* stray bytes a noisy line may deliver in front of a reply
MaxStray == 3
\* Wh the peripheral may accumulate between two successful polls
MaxAccum == 1
\* configured read timeout and update interval, in clock readings
ReadTimeout == 1
UpdateInterval == 1
\* edge width of the energyDelta input set
MaxEdge == 2
\* calls made on a builder, and how far below its capacity a builder starts
MaxCalls == 3
MaxFill == 4
\* most bytes the port holds unread while the read loop runs turn by turn
MaxLine == 2
\* longest byte sequence crc16modbus is applied to on its own
MaxCrcLen == 3

\* ------------------------------------------------------ program constants
BufferSize == 25
DefaultAddress == 248
ReadInputCode == 4
WriteCode == 6
ResetEnergyCode == 66
ErrorMask == 128
\* 0x03 (Read Holding Register) (NOT IMPLEMENTED)
ReadHoldingCode == 3
\* EnergyMax { 10000.0 } kWh, in thousandths (Wh)
EnergyMax == 10000000

SENSOR_ERROR_OK == "SENSOR_ERROR_OK"
SENSOR_ERROR_CRC == "SENSOR_ERROR_CRC"
SENSOR_ERROR_OTHER == "SENSOR_ERROR_OTHER"

Byte == 0..255

\* ------------------------------------------------------------ bit helpers
\* a ^ b on 4-bit operands, one bit at a time
RECURSIVE XorBits(_, _)
XorBits(a, b) ==
    IF a = 0 THEN b
    ELSE IF b = 0 THEN a
    ELSE (((a % 2) + (b % 2)) % 2) + 2 * XorBits(a \div 2, b \div 2)

Xor4 == [a \in 0..15 |-> [b \in 0..15 |-> XorBits(a, b)]]

\* a ^ b, four bits at a time
RECURSIVE BitXor(_, _)
BitXor(a, b) ==
    IF a = 0 THEN b
    ELSE IF b = 0 THEN a
    ELSE Xor4[a % 16][b % 16] + 16 * BitXor(a \div 16, b \div 16)

RECURSIVE BitOr(_, _)
BitOr(a, b) ==
    IF a = 0 THEN b
    ELSE IF b = 0 THEN a
    ELSE (IF (a % 2) + (b % 2) > 0 THEN 1 ELSE 0) + 2 * BitOr(a \div 2, b \div 2)

RECURSIVE BitAnd(_, _)
BitAnd(a, b) ==
    IF a = 0 \/ b = 0 THEN 0
    ELSE ((a % 2) * (b % 2)) + 2 * BitAnd(a \div 2, b \div 2)

\* C arrays are indexed from 0, sequences from 1
At(data, index) == data[index + 1]

\* --------------------------------------------------------------- CRC16
RECURSIVE crc16_bits(_, _)
crc16_bits(crc, index) ==
    IF index >= 8 THEN crc
    ELSE crc16_bits(IF crc % 2 = 1
                       THEN BitXor(crc \div 2, 40961)
                       ELSE crc \div 2,
                    index + 1)

crc16_update(crc, value) == crc16_bits(BitXor(crc, value), 0)

\* uint16_t crc: the register is 16 bits wide
RECURSIVE crc16_loop(_, _, _, _)
crc16_loop(data, size, index, crc) ==
    IF index >= size THEN crc
    ELSE LET next == crc16_update(crc, At(data, index))
         IN IF next < 65536
            THEN crc16_loop(data, size, index + 1, next)
            ELSE crc16_loop(data, size, index + 1, next % 65536)

\* defect: the register starts at 0
crc16modbus_zero(data, size) == crc16_loop(data, size, 0, 0)

crc16modbus(data, size) == crc16_loop(data, size, 0, 65535)

\* ---------------------------------------------------------- adu_builder
\* buffer is the std::array<uint8_t, 25>, zero-filled behind the two bytes
\* the constructor names; oob records a write behind the array.
adu_builder(device_address, fcode) ==
    [buffer |-> [i \in 1..BufferSize |->
                    IF i = 1 THEN device_address ELSE IF i = 2 THEN fcode ELSE 0],
     size   |-> 2,
     locked |-> FALSE,
     oob    |-> FALSE]

add_u8(b, value) ==
    IF ~b.locked /\ b.size < BufferSize
    THEN [b EXCEPT !.buffer[b.size + 1] = value, !.size = b.size + 1]
    ELSE b

\* defect: with one byte free the high half is written
add_u16_half(b, value) ==
    IF ~b.locked /\ (b.size + 1) < BufferSize
    THEN [b EXCEPT !.buffer[b.size + 1] = (value \div 256) % 256,
                   !.buffer[b.size + 2] = value % 256,
                   !.size = b.size + 2]
    ELSE IF ~b.locked /\ b.size < BufferSize
    THEN [b EXCEPT !.buffer[b.size + 1] = (value \div 256) % 256,
                   !.size = b.size + 1]
    ELSE b

add_u16(b, value) ==
    IF ~b.locked /\ (b.size + 1) < BufferSize
    THEN [b EXCEPT !.buffer[b.size + 1] = (value \div 256) % 256,
                   !.buffer[b.size + 2] = value % 256,
                   !.size = b.size + 2]
    ELSE b

\* defect: the CRC is appended most significant byte first
end_crc_be(b) ==
    IF ~b.locked
    THEN LET value == crc16modbus(b.buffer, b.size)
         IN [buffer |-> [i \in 1..BufferSize |->
                            IF i = b.size + 1 THEN (value \div 256) % 256
                            ELSE IF i = b.size + 2 THEN value % 256
                            ELSE b.buffer[i]],
             size   |-> b.size + 2,
             locked |-> TRUE,
             oob    |-> b.oob \/ (b.size + 1 >= BufferSize)]
    ELSE b

\* defect: a locked builder is finalized again
end_again(b) ==
    LET value == crc16modbus(b.buffer, b.size)
    IN [buffer |-> [i \in 1..BufferSize |->
                       IF i = b.size + 1 THEN value % 256
                       ELSE IF i = b.size + 2 THEN (value \div 256) % 256
                       ELSE b.buffer[i]],
        size   |-> b.size + 2,
        locked |-> TRUE,
        oob    |-> b.oob \/ (b.size + 1 >= BufferSize)]

\* buffer[size] and buffer[size + 1] are written unchecked: behind the array
\* they fall into the padding in front of size, which the model drops while
\* oob records the write
end(b) ==
    IF ~b.locked
    THEN LET value == crc16modbus(b.buffer, b.size)
             lo    == value % 256
             hi    == (value \div 256) % 256
         IN [buffer |-> [i \in 1..BufferSize |->
                            IF i = b.size + 1 THEN lo
                            ELSE IF i = b.size + 2 THEN hi
                            ELSE b.buffer[i]],
             size   |-> b.size + 2,
             locked |-> TRUE,
             oob    |-> b.oob \/ (b.size + 1 >= BufferSize)]
    ELSE b

\* the bytes write(builder.buffer.data(), builder.size) puts on the line
Frame(b) == [i \in 1..b.size |-> b.buffer[i]]

\* defect: the two CRC bytes of the reply are not counted
modbusExpectNoCrc(b) ==
    IF ~b.locked THEN 0
    ELSE IF At(b.buffer, 1) = ReadInputCode
         THEN (IF b.size >= 6
               THEN 3 + (2 * ((At(b.buffer, 4) * 256) + At(b.buffer, 5)))
               ELSE 0)
    ELSE IF At(b.buffer, 1) = WriteCode THEN b.size
    ELSE IF At(b.buffer, 1) = ResetEnergyCode THEN b.size
    ELSE 0

modbusExpect(b) ==
    IF ~b.locked THEN 0
    ELSE IF At(b.buffer, 1) = ReadInputCode
         THEN (IF b.size >= 6
               THEN 3 + (2 * ((At(b.buffer, 4) * 256) + At(b.buffer, 5))) + 2
               ELSE 0)
    ELSE IF At(b.buffer, 1) = WriteCode THEN b.size
    ELSE IF At(b.buffer, 1) = ResetEnergyCode THEN b.size
    ELSE 0

\* the three requests the driver builds
ResetRequest(address) == end(adu_builder(address, ResetEnergyCode))

AddressRequest(address, to) ==
    end(add_u16(add_u16(adu_builder(address, WriteCode), 2), to))

ReadRequest(address) ==
    end(add_u16(add_u16(adu_builder(address, ReadInputCode), 0), 10))

\* ------------------------------------------------------- reading decoder
\* double value of an integer register divided by 1.0, 10.0 or 1000.0,
\* in thousandths
Thousandths(raw, divisor) == raw * (1000 \div divisor)

take_2(buffer, it) ==
    IF BufferSize - it >= 2
    THEN [value |-> (At(buffer, it) * 256) + At(buffer, it + 1), it |-> it + 2]
    ELSE [value |-> 0, it |-> it]

\* defect: the word is read as four bytes, most significant first
take_4_be(buffer, it) ==
    IF BufferSize - it >= 4
    THEN [value |-> (At(buffer, it) * 16777216) + (At(buffer, it + 1) * 65536)
                    + (At(buffer, it + 2) * 256) + At(buffer, it + 3),
          it    |-> it + 4]
    ELSE [value |-> 0, it |-> it]

take_4(buffer, it) ==
    IF BufferSize - it >= 4
    THEN [value |-> (At(buffer, it + 2) * 16777216) + (At(buffer, it + 3) * 65536)
                    + (At(buffer, it) * 256) + At(buffer, it + 1),
          it    |-> it + 4]
    ELSE [value |-> 0, it |-> it]

\* Reading out; of a reply of another size: ok is false and the callback
\* drops it without looking at the other fields
NoReading ==
    [voltage |-> 0, current |-> 0, power_active |-> 0, energy_active |-> 0,
     frequency |-> 0, power_factor |-> 0, alarm |-> FALSE, ok |-> FALSE]

parseReading(buffer, size) ==
    IF 25 # size THEN NoReading
    ELSE LET v  == take_2(buffer, 3)
             c  == take_4(buffer, v.it)
             p  == take_4(buffer, c.it)
             e  == take_4(buffer, p.it)
             f  == take_2(buffer, e.it)
             pf == take_2(buffer, f.it)
         IN [voltage       |-> Thousandths(v.value, 10),
             current       |-> Thousandths(c.value, 1000),
             power_active  |-> Thousandths(p.value, 10),
             energy_active |-> Thousandths(e.value, 1000),
             frequency     |-> Thousandths(f.value, 10),
             power_factor  |-> Thousandths(pf.value, 1),
             alarm         |-> (255 = At(buffer, pf.it)) /\ (255 = At(buffer, pf.it + 1)),
             ok            |-> TRUE]

\* -------------------------------------------------------- energy delta
\* defect: the wrap of the counter is not taken into account
energyDeltaNoWrap(last, current) == current - last

\* the Energy energyDelta builds, in thousandths of a kWh (Wh); the
\* asWattSeconds() behind it changes the unit of that quantity and is not
\* part of this file, so _energy_delta is kept in Wh as well
energyDelta(last, current) ==
    IF last > current
    THEN current + (EnergyMax - last)
    ELSE current - last

\* ------------------------------------------------- peripheral and line
\* a byte that is no address and no function code of the model
OtherByte == 85
\* exception code "Illegal data address"
IllegalDataAddress == 2

\* addresses PZ.ADDRESS is given
AddressChoices == {1, DefaultAddress}

\* what the members without initializer may hold after construction
Indeterminate == {0, 7000}

PutU16(v) == <<(v \div 256) % 256, v % 256>>

\* a 32-bit value as two registers, low register first
PutU32(v) == PutU16(v % 65536) \o PutU16(v \div 65536)

WithCrc(body) ==
    LET crc == crc16modbus(body, Len(body))
    IN body \o <<crc % 256, (crc \div 256) % 256>>

\* the registers the peripheral reports besides its energy counter
DevMeasure ==
    [voltage |-> 2300, current |-> 1500, power_active |-> 3450,
     frequency |-> 500, power_factor |-> 100, alarm |-> 0]

\* addr, 0x04, nbytes, 10 registers, crc
ReadReply(address, energy) ==
    WithCrc(<<address, ReadInputCode, 20>>
            \o PutU16(DevMeasure.voltage)
            \o PutU32(DevMeasure.current)
            \o PutU32(DevMeasure.power_active)
            \o PutU32(energy)
            \o PutU16(DevMeasure.frequency)
            \o PutU16(DevMeasure.power_factor)
            \o PutU16(DevMeasure.alarm))

\* addr, fcode | 0x80, error_code, crc
ExceptionReply(address, fcode, exception) ==
    WithCrc(<<address, BitOr(ErrorMask, fcode), exception>>)

\* an echo of the address request that names another address
OtherEcho(address, to) ==
    WithCrc(<<address, WriteCode>> \o PutU16(2) \o PutU16((to + 1) % 256))

\* a frame damaged in its last byte, and one that lost it
Corrupt(frame) == [frame EXCEPT ![Len(frame)] = (@ + 1) % 256]
Short(frame) == SubSeq(frame, 1, Len(frame) - 1)

\* the values the peripheral's counter takes in a behaviour
DevEnergies == {EnergyMax - 1} \cup (0..MaxAccum)

\* the read replies of the peripheral, by address and counter
ReadReplies ==
    [address \in AddressChoices |-> [energy \in DevEnergies |-> ReadReply(address, energy)]]

\* what the peripheral may answer to a request, energy being its counter
\* when it answers
Replies(req, energy) ==
    LET address == At(req.buffer, 0)
        fcode   == At(req.buffer, 1)
        good    == IF fcode = ReadInputCode
                   THEN ReadReplies[address][energy]
                   ELSE Frame(req)
        exc     == ExceptionReply(address, fcode, IllegalDataAddress)
    IN {[kind |-> "good", bytes |-> good],
        [kind |-> "badcrc", bytes |-> Corrupt(good)],
        [kind |-> "short", bytes |-> Short(good)],
        [kind |-> "exception", bytes |-> exc],
        [kind |-> "badexception", bytes |-> Corrupt(exc)],
        [kind |-> "none", bytes |-> << >>]}
       \cup (IF fcode = WriteCode
             THEN {[kind |-> "other",
                    bytes |-> OtherEcho(address, At(req.buffer, 5))]}
             ELSE {})

\* stray bytes in front of a reply: at most n of them
Strays(address, n) ==
    UNION {[1..k -> {OtherByte, address}] : k \in 0..n}

\* the peripheral's counter after a reset request it answered that way
AfterReset(kind, energy) ==
    IF kind \in {"good", "badcrc", "short"} THEN {0}
    ELSE IF kind = "none" THEN {0, energy}
    ELSE {energy}

\* ------------------------------------------------------- the exchange
\* defect: the loop waits for the count alone
LoopCondNoTimeout(n, want, t, start) == n < want

\* while ((bytes < expect) && (TimeSource::now() - ts < _read_timeout))
LoopCond(n, want, t, start) == (n < want) /\ (t - start < ReadTimeout)

\* defect: the exception function byte does not redefine expect
ReadByteFixedExpect(st, c, address, code) ==
    IF (0 = st.bytes) /\ (address # c) THEN st
    ELSE IF (1 = st.bytes) /\ (BitOr(ErrorMask, code) # c) /\ (code # c)
         THEN [st EXCEPT !.bytes = 0, !.buffer = << >>]
    ELSE [st EXCEPT !.bytes = st.bytes + 1, !.buffer = Append(st.buffer, c)]

\* defect: a mismatched function byte is kept instead of starting over
ReadByteKeep(st, c, address, code) ==
    IF (0 = st.bytes) /\ (address # c) THEN st
    ELSE [bytes  |-> st.bytes + 1,
          expect |-> IF (1 = st.bytes) /\ (BitOr(ErrorMask, code) = c)
                     THEN 5 ELSE st.expect,
          buffer |-> Append(st.buffer, c)]

\* defect: the first byte is not compared with the address
ReadByteAnyFirst(st, c, address, code) ==
    IF (1 = st.bytes) /\ (BitOr(ErrorMask, code) # c) /\ (code # c)
    THEN [st EXCEPT !.bytes = 0, !.buffer = << >>]
    ELSE [bytes  |-> st.bytes + 1,
          expect |-> IF (1 = st.bytes) /\ (BitOr(ErrorMask, code) = c)
                     THEN 5 ELSE st.expect,
          buffer |-> Append(st.buffer, c)]

\* the loop body for a byte c the port returned; st is [bytes, expect, buffer]
\* (buffer holds the bytes 0..bytes-1 of the array, the only ones ever read)
ReadByte(st, c, address, code) ==
    LET error_code == BitOr(ErrorMask, code)
    IN IF (0 = st.bytes) /\ (address # c) THEN st
       ELSE IF (1 = st.bytes) /\ (error_code # c) /\ (code # c)
            THEN [st EXCEPT !.bytes = 0, !.buffer = << >>]
       ELSE [bytes  |-> st.bytes + 1,
             expect |-> IF (1 = st.bytes) /\ (error_code = c) THEN 5 ELSE st.expect,
             buffer |-> Append(st.buffer, c)]

\* the turns of the loop that read the bytes l the port holds, one byte a
\* turn, until the count is reached or the port is empty: [st, line] then
RECURSIVE Drain(_, _, _, _)
Drain(st, l, address, code) ==
    IF (st.bytes < st.expect) /\ (l # << >>)
    THEN Drain(ReadByte(st, Head(l), address, code), Tail(l), address, code)
    ELSE [st |-> st, line |-> l]

\* defect: the CRC of the reply is not compared
ProcessResultNoCrc(buf, n, want) ==
    IF want = 0 THEN "nothing"
    ELSE IF n # want THEN "other"
    ELSE IF BitAnd(At(buf, 1), ErrorMask) # 0 THEN "exception"
    ELSE "callback"

\* modbusProcess behind the loop: "nothing" (no reply expected), "other",
\* "crc", "exception" or "callback"
\* defect: the exception bit is looked at before the CRC
ProcessResultExceptionFirst(buf, n, want) ==
    IF want = 0 THEN "nothing"
    ELSE IF n # want THEN "other"
    ELSE IF BitAnd(At(buf, 1), ErrorMask) # 0 THEN "exception"
    ELSE IF ((At(buf, n - 1) * 256) + At(buf, n - 2)) # crc16modbus(buf, n - 2)
         THEN "crc"
    ELSE "callback"

\* defect: the exception bit is not looked at
ProcessResultNoException(buf, n, want) ==
    IF want = 0 THEN "nothing"
    ELSE IF n # want THEN "other"
    ELSE IF ((At(buf, n - 1) * 256) + At(buf, n - 2)) # crc16modbus(buf, n - 2)
         THEN "crc"
    ELSE "callback"

ProcessResult(buf, n, want) ==
    IF want = 0 THEN "nothing"
    ELSE IF n # want THEN "other"
    ELSE IF ((At(buf, n - 1) * 256) + At(buf, n - 2)) # crc16modbus(buf, n - 2)
         THEN "crc"
    ELSE IF BitAnd(At(buf, 1), ErrorMask) # 0 THEN "exception"
    ELSE "callback"

\* _error as modbusProcess leaves it
ErrorAfter(r, error) ==
    IF r = "other" THEN SENSOR_ERROR_OTHER
    ELSE IF r = "crc" THEN SENSOR_ERROR_CRC
    ELSE error

\* defect: any reply that passes the CRC counts as the echo
EchoEqualAny(req, buf, size) == TRUE

\* std::equal(request.buffer.begin(), request.buffer.begin() + size, buffer.begin())
EchoEqual(req, buf, size) ==
    \A i \in 0..(size - 1) : At(req.buffer, i) = At(buf, i)

\* the callback of modbusReadValues: [_last_reading, _energy_delta] behind it
StoreReading(buf, size, last, delta) ==
    LET reading == parseReading(buf, size)
    IN IF ~reading.ok THEN [reading |-> last, delta |-> delta]
       ELSE [reading |-> reading,
             delta   |-> IF last.ok /\ reading.ok
                         THEN energyDelta(last.energy_active, reading.energy_active)
                         ELSE delta]

\* defect: the poll is due at the interval already
PollDueAtInterval(t, last, interval) == t - last >= interval

\* the test of pre()'s last if
PollDue(t, last, interval) == t - last > interval

\* defect: the flag is dropped only when the reset was echoed
FlagWhenEchoed(result) == ~result

\* _reset_energy behind the reset exchange, result being what it returned
FlagAfterReset(result) == FALSE

\* ------------------------------------------------------------- state
VARIABLES
    \* the driver's members
    _address, _reset_energy, _last_update, _energy_delta, _last_reading, _error,
    \* where the driver is: "new" (constructed), "idle" (between handlers),
    \* "poll" (in pre(), at the update-interval test), "return" (the handler
    \* is about to return, its locals still in scope)
    pc,
    \* locals of the last exchange of the handler: the request, modbusProcess's
    \* expect, bytes, buffer and ts, PZ.ADDRESS's updated, the callback's result
    request, expect, bytes, buffer, ts, updated, result,
    \* the clock, the bytes the port holds, the peripheral's cumulative
    \* energy counter (Wh)
    now, line, dev_energy,
    \* history: the frames written since the handler was entered, the bytes
    \* the line delivered for the last request, how the last exchange ended
    \* and whether it called its callback
    written, stream, outcome, called,
    \* stray bytes the line may still deliver
    noise,
    \* history: Wh accumulated by the peripheral since the last successful
    \* poll, the clock reading at which the last read exchange ended (-1: none)
    accum, read_end,
    \* history: the calls made on the builder in request since the initial
    \* state, each [op, arg];
    \* the value the function applied last returned
    calls, ret

driver == <<_address, _reset_energy, _last_update, _energy_delta, _last_reading, _error>>
locals == <<request, expect, bytes, buffer, ts, updated, result>>
world == <<now, line, dev_energy, noise>>
history == <<written, stream, outcome, called, accum, read_end>>
applied == <<calls, ret>>
vars == <<driver, pc, locals, world, history, applied>>

\* Reading _last_reading; double _energy_delta; -- only ok has an initializer
UninitReading(g, a) ==
    [voltage |-> g, current |-> g, power_active |-> g, energy_active |-> g,
     frequency |-> g, power_factor |-> g, alarm |-> a, ok |-> FALSE]

\* make(port, address, timeout) and the constructor
Init ==
    /\ _address \in AddressChoices
    /\ _reset_energy = FALSE
    /\ _last_update = 0
    /\ _energy_delta \in Indeterminate
    /\ _last_reading \in {UninitReading(g, FALSE) : g \in Indeterminate}
    /\ _error = SENSOR_ERROR_OK
    /\ pc = "new"
    /\ request = adu_builder(DefaultAddress, 0)
    /\ expect = 0 /\ bytes = 0 /\ buffer = << >> /\ ts = 0
    /\ updated = DefaultAddress /\ result = FALSE
    /\ now = 0 /\ line = << >>
    /\ dev_energy = EnergyMax - 1
    /\ written = << >> /\ stream = << >> /\ outcome = "none" /\ called = FALSE
    /\ noise = 0 /\ accum = 0 /\ read_end = -1
    /\ calls = << >> /\ ret = 0

\* ------------------------------------------------------- environment
\* clock readings count from the one at which begin() ran; the clock is
\* seen to advance between handlers and inside the loop of an exchange
Tick ==
    /\ pc = "idle"
    /\ now < MaxTime
    /\ now' = now + 1
    /\ UNCHANGED <<driver, pc, locals, line, dev_energy, noise, history>>
    /\ UNCHANGED applied

\* the load draws one more Wh
Consume ==
    /\ pc \in {"new", "idle"}
    /\ accum < MaxAccum
    /\ (dev_energy + 1) % EnergyMax \in DevEnergies
    /\ dev_energy' = (dev_energy + 1) % EnergyMax
    /\ accum' = accum + 1
    /\ UNCHANGED <<driver, pc, locals, now, line, noise>>
    /\ UNCHANGED <<written, stream, outcome, called, read_end>>
    /\ UNCHANGED applied

\* ------------------------------------------------------------ driver
begin ==
    /\ pc = "new"
    /\ _last_update' = now - UpdateInterval
    /\ pc' = "idle"
    /\ UNCHANGED <<_address, _reset_energy, _energy_delta, _last_reading, _error>>
    /\ UNCHANGED <<locals, world, history>>
    /\ UNCHANGED applied

resetEnergy(index) ==
    /\ pc = "idle"
    /\ _reset_energy' = IF index = 6 THEN TRUE ELSE _reset_energy
    /\ UNCHANGED <<_address, _last_update, _energy_delta, _last_reading, _error>>
    /\ UNCHANGED <<pc, locals, world, history>>
    /\ UNCHANGED applied

\* double value(unsigned char index)
value(index) ==
    CASE index = 0 -> _last_reading.voltage
      [] index = 1 -> _last_reading.frequency
      [] index = 2 -> _last_reading.current
      [] index = 3 -> _last_reading.power_active
      [] index = 4 -> _last_reading.power_factor
      [] index = 5 -> _energy_delta
      [] index = 6 -> _last_reading.energy_active
      [] OTHER -> 0

\* modbusProcess: the request is written, the peripheral and the line decide
\* what arrives, the loop reads it and ends at clock reading now' -- with
\* the count reached, or at the first reading the timeout has passed; then
\* the reply is classified.  kind says which exchange it is, sofar what the
\* handler has written before, flushed whether the caller flushes the port
\* behind the exchange.
modbusProcess(builder, sofar, kind, flushed) ==
    \E req \in {builder} :
    \E energy \in (IF kind = "reset" THEN {0, dev_energy} ELSE {dev_energy}) :
    \E reply \in Replies(req, energy) :
    \E stray \in Strays(_address, noise) :
    \E d \in {Drain([bytes |-> 0, expect |-> modbusExpect(req), buffer |-> << >>],
                    stray \o reply.bytes, _address, At(req.buffer, 1))} :
    \E t \in now..MaxTime :
        /\ (kind = "reset") => (energy \in AfterReset(reply.kind, dev_energy))
        /\ ~LoopCond(d.st.bytes, d.st.expect, t, now)
        /\ (d.st.bytes < d.st.expect) => (t - now = ReadTimeout)
        /\ (d.st.bytes >= d.st.expect) => (t - now < ReadTimeout)
        /\ written' = Append(sofar, Frame(req))
        /\ request' = req
        /\ dev_energy' = energy
        /\ stream' = stray \o reply.bytes
        /\ noise' = noise - Len(stray)
        /\ ts' = now
        /\ now' = t
        /\ bytes' = d.st.bytes
        /\ expect' = d.st.expect
        /\ buffer' = d.st.buffer
        /\ line' = IF flushed THEN << >> ELSE d.line
        /\ outcome' = ProcessResult(d.st.buffer, d.st.bytes, d.st.expect)
        /\ called' = (outcome' = "callback")

\* defect: a reset that was echoed drops the retained reading
preInvalidates ==
    /\ pc = "idle"
    /\ pc' = "poll"
    /\ IF _reset_energy
       THEN /\ modbusProcess(ResetRequest(_address), << >>, "reset", TRUE)
            /\ result' = (called' /\ EchoEqual(request', buffer', bytes'))
            /\ _error' = ErrorAfter(outcome', _error)
            /\ _reset_energy' = FlagAfterReset(result')
            /\ UNCHANGED <<updated, accum, read_end>>
       ELSE /\ line' = << >>
            /\ written' = << >>
            /\ UNCHANGED <<_error, _reset_energy, locals, now, dev_energy, noise>>
            /\ UNCHANGED <<stream, outcome, called, accum, read_end>>
    /\ _last_reading' = IF _reset_energy /\ result' THEN NoReading ELSE _last_reading
    /\ UNCHANGED <<_address, _last_update, _energy_delta>>
    /\ UNCHANGED applied

\* pre() up to the update-interval test: flush, and when a reset is pending
\* modbusResetEnergy, the flag dropped and the port flushed again
pre ==
    /\ pc = "idle"
    /\ pc' = "poll"
    /\ IF _reset_energy
       THEN /\ modbusProcess(ResetRequest(_address), << >>, "reset", TRUE)
            /\ result' = (called' /\ EchoEqual(request', buffer', bytes'))
            /\ _error' = ErrorAfter(outcome', _error)
            /\ _reset_energy' = FlagAfterReset(result')
            /\ UNCHANGED <<updated, accum, read_end>>
       ELSE /\ line' = << >>
            /\ written' = << >>
            /\ UNCHANGED <<_error, _reset_energy, locals, now, dev_energy, noise>>
            /\ UNCHANGED <<stream, outcome, called, accum, read_end>>
    /\ UNCHANGED <<_address, _last_update, _energy_delta, _last_reading>>
    /\ UNCHANGED applied

\* pre() from the update-interval test: modbusReadValues and the time stamp
poll ==
    /\ pc = "poll"
    /\ pc' = "return"
    /\ IF PollDue(now, _last_update, UpdateInterval)
       THEN /\ modbusProcess(ReadRequest(_address), written, "read", FALSE)
            /\ _error' = ErrorAfter(outcome', SENSOR_ERROR_OK)
            /\ LET s == IF called'
                        THEN StoreReading(buffer', bytes', _last_reading, _energy_delta)
                        ELSE [reading |-> _last_reading, delta |-> _energy_delta]
               IN /\ _last_reading' = s.reading
                  /\ _energy_delta' = s.delta
            /\ accum' = IF called' /\ parseReading(buffer', bytes').ok THEN 0 ELSE accum
            /\ read_end' = now'
            /\ _last_update' = now'
            /\ UNCHANGED <<updated, result>>
       ELSE /\ UNCHANGED <<_error, _last_reading, _energy_delta, _last_update>>
            /\ UNCHANGED <<locals, world, history>>
    /\ UNCHANGED <<_address, _reset_energy>>
    /\ UNCHANGED applied

\* PZ.ADDRESS <to>: flush, modbusChangeAddress, _address set when it succeeds
command(to) ==
    /\ pc = "idle"
    /\ pc' = "return"
    /\ updated' = to
    /\ IF _address = to
       THEN /\ line' = << >>
            /\ written' = << >>
            /\ result' = TRUE
            /\ UNCHANGED <<_error, request, expect, bytes, buffer, ts, now, dev_energy, noise>>
            /\ UNCHANGED <<stream, outcome, called, accum, read_end>>
       ELSE /\ modbusProcess(AddressRequest(_address, to), << >>, "address", FALSE)
            /\ result' = (called' /\ EchoEqual(request', buffer', bytes'))
            /\ _error' = ErrorAfter(outcome', _error)
            /\ UNCHANGED <<accum, read_end>>
    /\ _address' = IF result' THEN to ELSE _address
    /\ UNCHANGED <<_reset_energy, _last_update, _energy_delta, _last_reading>>
    /\ UNCHANGED applied

\* the handler returns: its locals go out of scope
Return ==
    /\ pc = "return"
    /\ pc' = "idle"
    /\ request' = adu_builder(DefaultAddress, 0)
    /\ expect' = 0 /\ bytes' = 0 /\ buffer' = << >> /\ ts' = 0
    /\ updated' = DefaultAddress /\ result' = FALSE
    /\ written' = << >> /\ stream' = << >> /\ outcome' = "none" /\ called' = FALSE
    /\ UNCHANGED <<driver, world, accum, read_end>>
    /\ UNCHANGED applied

Next ==
    \/ Tick
    \/ Consume
    \/ begin
    \/ \E index \in {5, 6} : resetEnergy(index)
    \/ pre
    \/ poll
    \/ \E to \in AddressChoices : command(to)
    \/ Return

Spec == Init /\ [][Next]_vars

\* --------------------------------------------- the engine on its own
\* modbusProcess applied once to each request of the driver, on a noisy line
InitExchange ==
    /\ _address \in AddressChoices
    /\ _reset_energy = FALSE
    /\ _last_update = 0
    /\ _energy_delta \in Indeterminate
    /\ _last_reading \in {UninitReading(g, FALSE) : g \in Indeterminate}
    /\ _error = SENSOR_ERROR_OK
    /\ pc = "engine"
    /\ request = adu_builder(DefaultAddress, 0)
    /\ expect = 0 /\ bytes = 0 /\ buffer = << >> /\ ts = 0
    /\ updated = DefaultAddress /\ result = FALSE
    /\ now = 0 /\ line = << >>
    /\ dev_energy = EnergyMax - 1
    /\ noise = MaxStray
    /\ written = << >> /\ stream = << >> /\ outcome = "none" /\ called = FALSE
    /\ accum = 0 /\ read_end = -1
    /\ calls = << >> /\ ret = 0

\* modbusResetEnergy and modbusChangeAddress: the echo is compared
exchangeEcho(builder, kind) ==
    /\ pc = "engine"
    /\ pc' = "done"
    /\ modbusProcess(builder, << >>, kind, FALSE)
    /\ result' = (called' /\ EchoEqual(request', buffer', bytes'))
    /\ _error' = ErrorAfter(outcome', _error)
    /\ UNCHANGED <<_address, _reset_energy, _last_update, _energy_delta, _last_reading>>
    /\ UNCHANGED <<updated, accum, read_end>>
    /\ UNCHANGED applied

\* modbusReadValues
exchangeRead ==
    /\ pc = "engine"
    /\ pc' = "done"
    /\ modbusProcess(ReadRequest(_address), << >>, "read", FALSE)
    /\ _error' = ErrorAfter(outcome', SENSOR_ERROR_OK)
    /\ LET s == IF called'
                THEN StoreReading(buffer', bytes', _last_reading, _energy_delta)
                ELSE [reading |-> _last_reading, delta |-> _energy_delta]
       IN /\ _last_reading' = s.reading
          /\ _energy_delta' = s.delta
    /\ UNCHANGED <<_address, _reset_energy, _last_update>>
    /\ UNCHANGED <<updated, result, accum, read_end>>
    /\ UNCHANGED applied

NextExchange ==
    \/ exchangeEcho(ResetRequest(_address), "reset")
    \/ \E to \in AddressChoices \ {_address} :
          exchangeEcho(AddressRequest(_address, to), "address")
    \/ exchangeRead

SpecExchange == InitExchange /\ [][NextExchange]_vars

\* ------------------------------------------- energyDelta on its own
\* cumulative counter values: both ends of the range and the values between
DeltaInputs ==
    (0..MaxEdge) \cup ((EnergyMax - 1 - MaxEdge)..(EnergyMax - 1))
    \cup {200, 100000, 150000, 9999500}

InitDelta ==
    /\ _address = DefaultAddress
    /\ _reset_energy = FALSE
    /\ _last_update = 0
    /\ _energy_delta \in Indeterminate
    /\ _last_reading \in
         {[UninitReading(0, FALSE) EXCEPT !.energy_active = e, !.ok = TRUE] :
            e \in DeltaInputs}
    /\ _error = SENSOR_ERROR_OK
    /\ pc = "delta"
    /\ request = adu_builder(DefaultAddress, 0)
    /\ expect = 0 /\ bytes = 0 /\ buffer = << >> /\ ts = 0
    /\ updated = DefaultAddress /\ result = FALSE
    /\ now = 0 /\ line = << >>
    /\ dev_energy = 0
    /\ noise = 0
    /\ written = << >> /\ stream = << >> /\ outcome = "none" /\ called = FALSE
    /\ accum = 0 /\ read_end = -1
    /\ calls = << >> /\ ret = 0

\* the callback of modbusReadValues behind a reading that parsed, current
\* being its energy_active
applyEnergyDelta(current) ==
    /\ pc = "delta"
    /\ _energy_delta' = energyDelta(_last_reading.energy_active, current)
    /\ _last_reading' = [_last_reading EXCEPT !.energy_active = current]
    /\ UNCHANGED <<_address, _reset_energy, _last_update, _error>>
    /\ UNCHANGED <<pc, locals, world, history>>
    /\ UNCHANGED applied

NextDelta == \E current \in DeltaInputs : applyEnergyDelta(current)

SpecDelta == InitDelta /\ [][NextDelta]_vars

\* ------------------------------------------- parseReading on its own
\* replies of 25 bytes: zero but for one or two of the register bytes 3..22,
\* (the top byte of the power word at most 1: the word times 100 stays
\* below 2^31), and the reply to raw voltage 2300, current 1500 and energy
\* 12345
ParseValues(i) ==
    IF i \in {21, 22} THEN {1, 2, 255}
    ELSE IF i = 11 THEN {1}
    ELSE {1, 2}

ParseInputs ==
    {[k \in 1..25 |-> IF k = i + 1 THEN v ELSE IF k = j + 1 THEN w ELSE 0] :
        <<i, j, v, w>> \in
            {x \in (3..22) \X (3..22) \X {1, 2, 255} \X {1, 2, 255} :
                /\ x[1] <= x[2]
                /\ x[3] \in ParseValues(x[1])
                /\ x[4] \in ParseValues(x[2])}}
    \cup {<<DefaultAddress, ReadInputCode, 20, 8, 252, 5, 220, 0, 0, 0, 0, 0, 0,
            48, 57, 0, 0, 1, 244, 0, 100, 0, 0, 0, 0>>}

InitParse ==
    /\ _address = DefaultAddress
    /\ _reset_energy = FALSE
    /\ _last_update = 0
    /\ _energy_delta \in Indeterminate
    /\ _last_reading = UninitReading(0, FALSE)
    /\ _error = SENSOR_ERROR_OK
    /\ pc = "parse"
    /\ request = adu_builder(DefaultAddress, 0)
    /\ expect = 25 /\ bytes = 25 /\ buffer \in ParseInputs /\ ts = 0
    /\ updated = DefaultAddress /\ result = FALSE
    /\ now = 0 /\ line = << >>
    /\ dev_energy = 0
    /\ noise = 0
    /\ written = << >> /\ stream = << >> /\ outcome = "callback" /\ called = TRUE
    /\ accum = 0 /\ read_end = -1
    /\ calls = << >> /\ ret = 0

\* the callback of modbusReadValues on the reply in buffer
applyParseReading ==
    /\ pc = "parse"
    /\ pc' = "parsed"
    /\ LET s == StoreReading(buffer, bytes, _last_reading, _energy_delta)
       IN /\ _last_reading' = s.reading
          /\ _energy_delta' = s.delta
    /\ UNCHANGED <<_address, _reset_energy, _last_update, _error>>
    /\ UNCHANGED <<locals, world, history, applied>>

NextParse == applyParseReading

SpecParse == InitParse /\ [][NextParse]_vars

\* -------------------------------------------- adu_builder on its own
\* builders as add(uint8_t) of 0 fills them: empty, with one 16-bit field,
\* and up to MaxFill bytes below the capacity
FillSizes == {2, 4} \cup ((BufferSize - MaxFill)..BufferSize)

BuilderCodes == {ReadInputCode, WriteCode, ResetEnergyCode, ReadHoldingCode}

RECURSIVE Fill(_, _)
Fill(b, n) == IF b.size >= n THEN b ELSE Fill(add_u8(b, 0), n)

InitBuilder ==
    /\ _address = DefaultAddress
    /\ _reset_energy = FALSE
    /\ _last_update = 0
    /\ _energy_delta \in Indeterminate
    /\ _last_reading = UninitReading(0, FALSE)
    /\ _error = SENSOR_ERROR_OK
    /\ pc = "build"
    /\ request \in {Fill(adu_builder(DefaultAddress, fcode), n) :
                      fcode \in BuilderCodes, n \in FillSizes}
    /\ expect = 0 /\ bytes = 0 /\ buffer = << >> /\ ts = 0
    /\ updated = DefaultAddress /\ result = FALSE
    /\ now = 0 /\ line = << >>
    /\ dev_energy = EnergyMax - 1
    /\ noise = 0
    /\ written = << >> /\ stream = << >> /\ outcome = "none" /\ called = FALSE
    /\ accum = 0 /\ read_end = -1
    /\ calls = << >> /\ ret = 0

\* one more call on the builder
BuilderCall(op, v, after) ==
    /\ pc = "build"
    /\ Len(calls) < MaxCalls
    /\ request' = after
    /\ calls' = Append(calls, [op |-> op, arg |-> v])
    /\ UNCHANGED <<driver, pc, world, history, ret>>
    /\ UNCHANGED <<expect, bytes, buffer, ts, updated, result>>

addByte(v) == BuilderCall("add8", v, add_u8(request, v))

addWord(v) == BuilderCall("add16", v, add_u16(request, v))

finalize == BuilderCall("end", 0, end(request))

\* modbusProcess on the builder, with the callback that compares the echo; a
\* builder that is not locked is not written, one that overran its array is
\* not passed on
process ==
    /\ pc = "build"
    /\ request.size <= BufferSize
    /\ pc' = "done"
    /\ IF ~request.locked
       THEN /\ UNCHANGED <<_error, locals, world, history>>
       ELSE /\ modbusProcess(request, << >>,
                             IF At(request.buffer, 1) = ResetEnergyCode
                             THEN "reset" ELSE "other", FALSE)
            /\ result' = (called' /\ EchoEqual(request', buffer', bytes'))
            /\ _error' = ErrorAfter(outcome', _error)
            /\ UNCHANGED <<updated, accum, read_end>>
    /\ UNCHANGED <<_address, _reset_energy, _last_update, _energy_delta, _last_reading>>
    /\ UNCHANGED applied

NextBuilder ==
    \/ addByte(171)
    \/ \E v \in {10, 258} : addWord(v)
    \/ finalize
    \/ process

SpecBuilder == InitBuilder /\ [][NextBuilder]_vars

\* ------------------------------------------- the read loop turn by turn
\* the bytes the transport delivers while the loop runs: the address, the
\* function code of the request and its exception code
LoopBytes == {DefaultAddress, ResetEnergyCode, BitOr(ErrorMask, ResetEnergyCode)}

\* modbusProcess for the reset request, behind ts = TimeSource::now()
InitLoop ==
    /\ _address = DefaultAddress
    /\ _reset_energy = TRUE
    /\ _last_update = 0
    /\ _energy_delta \in Indeterminate
    /\ _last_reading = UninitReading(0, FALSE)
    /\ _error = SENSOR_ERROR_OK
    /\ pc = "loop"
    /\ request = ResetRequest(DefaultAddress)
    /\ expect = modbusExpect(request) /\ bytes = 0 /\ buffer = << >> /\ ts = 0
    /\ updated = DefaultAddress /\ result = FALSE
    /\ now = 0 /\ line = << >>
    /\ dev_energy = 0
    /\ noise = 0
    /\ written = <<Frame(request)>> /\ stream = << >> /\ outcome = "none"
    /\ called = FALSE
    /\ accum = 0 /\ read_end = -1
    /\ calls = << >> /\ ret = 0

\* the transport delivers one more byte
arrive(c) ==
    /\ pc \in {"loop", "read"}
    /\ Len(line) < MaxLine
    /\ line' = Append(line, c)
    /\ UNCHANGED <<driver, pc, locals, now, dev_energy, noise, history>>
    /\ UNCHANGED applied

\* TimeSource::now() moves on while the loop runs
elapse ==
    /\ pc \in {"loop", "read"}
    /\ now < MaxTime
    /\ now' = now + 1
    /\ UNCHANGED <<driver, pc, locals, line, dev_energy, noise, history>>
    /\ UNCHANGED applied

\* the loop check
loopCheck ==
    /\ pc = "loop"
    /\ pc' = IF LoopCond(bytes, expect, now, ts) THEN "read" ELSE "classify"
    /\ UNCHANGED <<driver, locals, world, history>>
    /\ UNCHANGED applied

\* behind the loop the reply is classified
classify ==
    /\ pc = "classify"
    /\ pc' = "done"
    /\ outcome' = ProcessResult(buffer, bytes, expect)
    /\ called' = (outcome' = "callback")
    /\ result' = (called' /\ EchoEqual(request, buffer, bytes))
    /\ _error' = ErrorAfter(outcome', _error)
    /\ read_end' = now
    /\ UNCHANGED <<_address, _reset_energy, _last_update, _energy_delta, _last_reading>>
    /\ UNCHANGED <<request, expect, bytes, buffer, ts, updated>>
    /\ UNCHANGED <<world, written, stream, accum>>
    /\ UNCHANGED applied

\* one turn of the loop body: read() returns a byte or -1
loopRead ==
    /\ pc = "read"
    /\ pc' = "loop"
    /\ IF line = << >>
       THEN UNCHANGED <<expect, bytes, buffer, line>>
       ELSE LET st == ReadByte([bytes |-> bytes, expect |-> expect, buffer |-> buffer],
                               Head(line), _address, At(request.buffer, 1))
            IN /\ bytes' = st.bytes
               /\ expect' = st.expect
               /\ buffer' = st.buffer
               /\ line' = Tail(line)
    /\ UNCHANGED <<driver, request, ts, updated, result>>
    /\ UNCHANGED <<now, dev_energy, noise, history>>
    /\ UNCHANGED applied

NextLoop ==
    \/ \E c \in LoopBytes : arrive(c)
    \/ elapse
    \/ loopCheck
    \/ loopRead
    \/ classify

\* the loop keeps running and the clock keeps advancing; nothing is asked
\* of the transport
SpecLoop ==
    /\ InitLoop
    /\ [][NextLoop]_vars
    /\ WF_vars(loopCheck)
    /\ WF_vars(loopRead)
    /\ WF_vars(elapse)

\* ------------------- the read loop turn by turn, on the driver's requests
\* the three requests the driver issues
DriverRequests(address) ==
    {ReadRequest(address), ResetRequest(address)}
    \cup {AddressRequest(address, to) : to \in AddressChoices \ {address}}

\* modbusProcess behind ts = TimeSource::now(), for a request of the driver;
\* the port holds up to MaxStray stray bytes and what the peripheral sent
InitFrames ==
    /\ _address \in AddressChoices
    /\ _reset_energy = FALSE
    /\ _last_update = 0
    /\ _energy_delta \in Indeterminate
    /\ _last_reading = UninitReading(0, FALSE)
    /\ _error = SENSOR_ERROR_OK
    /\ pc = "loop"
    /\ request \in DriverRequests(_address)
    /\ expect = modbusExpect(request) /\ bytes = 0 /\ buffer = << >> /\ ts = 0
    /\ updated = DefaultAddress /\ result = FALSE
    /\ now = 0
    /\ dev_energy = EnergyMax - 1
    /\ noise = 0
    /\ line \in {stray \o reply.bytes :
                   stray \in Strays(_address, MaxStray),
                   reply \in Replies(request, dev_energy)}
    /\ stream = line
    /\ written = <<Frame(request)>> /\ outcome = "none" /\ called = FALSE
    /\ accum = 0 /\ read_end = -1
    /\ calls = << >> /\ ret = 0

NextFrames ==
    \/ elapse
    \/ loopCheck
    \/ loopRead
    \/ classify

SpecFrames == InitFrames /\ [][NextFrames]_vars

\* ------------------------------------------ pre() with flush() turn by turn
\* pre() is entered behind begin(), the port holding what arrived before
InitPre ==
    /\ _address = DefaultAddress
    /\ _reset_energy \in BOOLEAN
    /\ _last_update = 0 - UpdateInterval
    /\ _energy_delta \in Indeterminate
    /\ _last_reading = UninitReading(0, FALSE)
    /\ _error = SENSOR_ERROR_OK
    /\ pc = "flush"
    /\ request = adu_builder(DefaultAddress, 0)
    /\ expect = 0 /\ bytes = 0 /\ buffer = << >> /\ ts = 0
    /\ updated = DefaultAddress /\ result = FALSE
    /\ now \in {0, MaxTime - (2 * ReadTimeout)}
    /\ line \in {<< >>, <<OtherByte>>}
    /\ dev_energy = EnergyMax - 1
    /\ noise = 0
    /\ written = << >> /\ stream = << >> /\ outcome = "none" /\ called = FALSE
    /\ accum = 0 /\ read_end = -1
    /\ calls = << >> /\ ret = 0

\* the transport has one more byte while flush() runs
deliver(c) ==
    /\ pc \in {"flush", "flush again"}
    /\ Len(line) < MaxLine
    /\ line' = Append(line, c)
    /\ UNCHANGED <<driver, pc, locals, now, dev_energy, noise, history>>
    /\ UNCHANGED applied

\* one turn of flush(): while ((*_port)->read() >= 0) {}
flushRead ==
    /\ pc \in {"flush", "flush again"}
    /\ IF line # << >>
       THEN /\ line' = Tail(line)
            /\ pc' = pc
       ELSE /\ line' = line
            /\ pc' = IF pc = "flush" /\ _reset_energy THEN "reset" ELSE "poll"
    /\ UNCHANGED <<driver, locals, now, dev_energy, noise, history>>
    /\ UNCHANGED applied

\* if (_reset_energy): modbusResetEnergy and the flag dropped
resetExchange ==
    /\ pc = "reset"
    /\ pc' = "flush again"
    /\ modbusProcess(ResetRequest(_address), << >>, "reset", FALSE)
    /\ result' = (called' /\ EchoEqual(request', buffer', bytes'))
    /\ _error' = ErrorAfter(outcome', _error)
    /\ _reset_energy' = FlagAfterReset(result')
    /\ UNCHANGED <<updated, accum, read_end>>
    /\ UNCHANGED <<_address, _last_update, _energy_delta, _last_reading>>
    /\ UNCHANGED applied

NextPre ==
    \/ \E c \in {OtherByte, DefaultAddress} : deliver(c)
    \/ flushRead
    \/ resetExchange
    \/ poll

\* flush() keeps running and the two exchanges end (the read loop is bounded
\* by the timeout); nothing is asked of the transport
SpecPre ==
    /\ InitPre
    /\ [][NextPre]_vars
    /\ WF_vars(flushRead)
    /\ []<>(pc \notin {"reset", "poll"})

\* --------------------------------------------- crc16modbus on its own
\* byte sequences of up to MaxCrcLen bytes and the read request without its CRC
CrcInputs ==
    UNION {[1..n -> {0, 1, 128, 255}] : n \in 0..MaxCrcLen}
    \cup {<<DefaultAddress, ReadInputCode, 0, 0, 0, 10>>}

InitCrc ==
    /\ _address = DefaultAddress
    /\ _reset_energy = FALSE
    /\ _last_update = 0
    /\ _energy_delta \in Indeterminate
    /\ _last_reading = UninitReading(0, FALSE)
    /\ _error = SENSOR_ERROR_OK
    /\ pc = "crc"
    /\ request = adu_builder(DefaultAddress, 0)
    /\ expect = 0 /\ buffer \in CrcInputs /\ bytes = Len(buffer) /\ ts = 0
    /\ updated = DefaultAddress /\ result = FALSE
    /\ now = 0 /\ line = << >>
    /\ dev_energy = 0
    /\ noise = 0
    /\ written = << >> /\ stream = << >> /\ outcome = "none" /\ called = FALSE
    /\ accum = 0 /\ read_end = -1
    /\ calls = << >> /\ ret = 0

\* crc16modbus(buffer.data(), bytes)
applyCrc ==
    /\ pc = "crc"
    /\ pc' = "crcdone"
    /\ ret' = crc16modbus(buffer, bytes)
    /\ UNCHANGED <<driver, locals, world, history, calls>>

NextCrc == applyCrc

SpecCrc == InitCrc /\ [][NextCrc]_vars

\* ============================================================ properties
\* a step that carries out an exchange, and the request it wrote
ExchangeStep == (written' # written) /\ (written' # << >>)
LastWritten == written[Len(written)]

\* s ends in the CRC of the bytes before it, low byte first
CrcValid(s) ==
    /\ Len(s) > 2
    /\ (s[Len(s)] * 256) + s[Len(s) - 1] = crc16modbus(s, Len(s) - 2)

\* C1: when the line delivers, for a read, reset or address request, the
\* exception frame [address, code | 0x80, exception, crc lo, crc hi] with a
\* valid CRC, the exchange ends as a protocol exception: expect is 5 (also
\* for the 4-byte reset request), the callback is not called, _last_reading
\* and _energy_delta keep their values, and _error is not set to
\* SENSOR_ERROR_CRC or SENSOR_ERROR_OTHER by the exchange.
ExceptionDelivered ==
    /\ Len(stream') = 5
    /\ stream'[1] = _address
    /\ stream'[2] = At(request'.buffer, 1) + ErrorMask
    /\ CrcValid(stream')

C1_ExceptionClassified ==
    [][(ExchangeStep /\ ExceptionDelivered) =>
          /\ outcome' = "exception"
          /\ expect' = 5
          /\ ~called'
          /\ _last_reading' = _last_reading
          /\ _energy_delta' = _energy_delta
          /\ _error' = IF At(request'.buffer, 1) = ReadInputCode
                       THEN SENSOR_ERROR_OK ELSE _error]_vars

\* the reset exchange of pre() was answered by an exception frame
C1_Witness ==
    /\ pc = "poll"
    /\ Len(written) = 1
    /\ LastWritten[2] = ResetEnergyCode
    /\ Len(stream) = 5
    /\ stream[2] = ResetEnergyCode + ErrorMask
    /\ CrcValid(stream)
    /\ outcome = "exception"

\* s is the peripheral's well-formed reply to the read request
GoodReadReply(s, address) ==
    /\ Len(s) = 25
    /\ s[1] = address
    /\ s[2] = ReadInputCode
    /\ s[3] = 20
    /\ CrcValid(s)

\* the read exchange of pre(), not answered by a well-formed reply
ReadFailed ==
    /\ pc = "poll"
    /\ written' # written
    /\ ~GoodReadReply(stream', _address)

\* C2: a pre() whose read exchange ends in a timeout or framing error, a CRC
\* error or a protocol exception leaves _last_reading (ok included),
\* _energy_delta and _address as they were before the call; only _error,
\* _reset_energy and _last_update may differ.
C2_FailedPollKeepsReading ==
    [][/\ ((pc = "idle") /\ (pc' = "poll")) =>
             UNCHANGED <<_last_reading, _energy_delta, _address, _last_update>>
       /\ ReadFailed =>
             /\ outcome' \in {"other", "crc", "exception"}
             /\ ~called'
             /\ _error' = (CASE outcome' = "other" -> SENSOR_ERROR_OTHER
                             [] outcome' = "crc" -> SENSOR_ERROR_CRC
                             [] OTHER -> SENSOR_ERROR_OK)
             /\ UNCHANGED <<_last_reading, _energy_delta, _address>>]_vars

\* a poll failed on its CRC while an earlier reading is retained
C2_Witness ==
    /\ pc = "return"
    /\ written # << >>
    /\ LastWritten[2] = ReadInputCode
    /\ outcome = "crc"
    /\ _error = SENSOR_ERROR_CRC
    /\ _last_reading.ok

\* the line delivered a byte that is not the address, the address, a byte
\* that is neither the function code nor the code with the error bit, and
\* then a well-formed reply to the request
ResyncFrame == SubSeq(stream, 4, Len(stream))

ResyncDelivered ==
    /\ Len(stream) = 3 + modbusExpect(request)
    /\ stream[1] # _address
    /\ stream[2] = _address
    /\ stream[3] \notin {At(request.buffer, 1), At(request.buffer, 1) + ErrorMask}
    /\ ResyncFrame[1] = _address
    /\ ResyncFrame[2] = At(request.buffer, 1)
    /\ CrcValid(ResyncFrame)

\* C3: resynchronisation -- behind a stray byte, the address and a
\* mismatched function byte, a well-formed reply makes the exchange succeed,
\* and the callback gets exactly the bytes of that reply.
C3_Resynchronised ==
    (pc = "done" /\ ResyncDelivered) =>
        /\ outcome = "callback"
        /\ called
        /\ bytes = Len(ResyncFrame)
        /\ buffer = ResyncFrame

\* a read exchange that resynchronised
C3_Witness ==
    /\ pc = "done"
    /\ ResyncDelivered
    /\ At(request.buffer, 1) = ReadInputCode
    /\ called
    /\ _last_reading.ok

C5_ResetOnce ==
    [][/\ ((pc = "idle") /\ (pc' = "poll")) =>
             /\ ~_reset_energy'
             /\ written' = IF _reset_energy
                           THEN <<WithCrc(<<_address, ResetEnergyCode>>)>>
                           ELSE << >>
       /\ (pc = "poll") =>
             /\ ~_reset_energy
             /\ ~_reset_energy'
             /\ \/ written' = written
                \/ written' = Append(written, WithCrc(<<_address, ReadInputCode, 0, 0, 0, 10>>))
       /\ (_reset_energy' /\ ~_reset_energy) =>
             /\ pc = "idle"
             /\ pc' = "idle"
             /\ written' = written]_vars

\* a pre() that wrote the reset frame and then the read request
C5_Witness ==
    /\ pc = "return"
    /\ Len(written) = 2
    /\ written[1][2] = ResetEnergyCode
    /\ written[2][2] = ReadInputCode
    /\ ~_reset_energy

\* C6: a read exchange starts more than one update interval after the
\* read exchange before it ended, whether that one succeeded or failed;
\* _last_update is the clock reading behind every read exchange.
C6_PollSpacing ==
    [][((pc = "poll") /\ (written' # written)) =>
          /\ (read_end # -1) => (ts' - read_end > UpdateInterval)
          /\ _last_update' = now']_vars

\* a failed read exchange behind an earlier, successful one
C6_Witness ==
    /\ pc = "return"
    /\ written # << >>
    /\ LastWritten[2] = ReadInputCode
    /\ outcome = "exception"
    /\ _last_reading.ok
    /\ ts - UpdateInterval > 0
    /\ _last_update = now

\* C7: behind begin(), the first pre() carries out a read exchange at
\* whatever clock reading it is called, the reading of begin() included
\* (stated for every pre() that no read exchange precedes, the first among
\* them).
C7_FirstPollImmediately ==
    [][((pc = "poll") /\ (read_end = -1)) => (written' # written)]_vars

\* C8: while _last_reading is not valid, value(5) is 0.
C8_DeltaZeroWithoutReading ==
    (~_last_reading.ok) => (value(5) = 0)

\* C9: a successful poll behind an earlier successful poll leaves in
\* _energy_delta the energy the peripheral accumulated between the two,
\* also when a reset exchange set its counter to 0 in between.
C9_DeltaIsAccumulated ==
    [][(/\ pc = "poll"
        /\ written' # written
        /\ _last_reading.ok
        /\ GoodReadReply(stream', _address)) => (_energy_delta' = accum)]_vars

\* C10: energyDelta(previous, current) is current - previous when current >=
\* previous and current + (10000 kWh - previous) otherwise; it is never
\* negative and below 10000 kWh; 9999.5 and 0.2 kWh give 0.7 kWh, 100 and
\* 150 kWh give 50 kWh (in Wh here).
C10_EnergyDelta ==
    [][LET previous == _last_reading.energy_active
           current  == _last_reading'.energy_active
       IN (pc = "delta") =>
            /\ _energy_delta' = IF current >= previous
                                THEN current - previous
                                ELSE current + (10000000 - previous)
            /\ _energy_delta' >= 0
            /\ _energy_delta' < 10000000
            /\ ((previous = 9999500) /\ (current = 200)) => (_energy_delta' = 700)
            /\ ((previous = 100000) /\ (current = 150000)) => (_energy_delta' = 50000)]_vars

\* the counter wrapped from 9999.5 kWh to 0.2 kWh
C10_Witness ==
    /\ pc = "delta"
    /\ _last_reading.energy_active = 200
    /\ _energy_delta = 700

\* the 4-byte word at offset i of reply b: the low 16-bit register comes
\* first, each register most significant byte first
Word(b, i) ==
    (At(b, i + 2) * 16777216) + (At(b, i + 3) * 65536) + (At(b, i) * 256) + At(b, i + 1)

\* C11: parseReading on a 25-byte reply b reads voltage = (b[3]<<8 | b[4]) /
\* 10, current = W(5) / 1000, power = W(9) / 10, energy = W(13) / 1000,
\* frequency = (b[17]<<8 | b[18]) / 10, power factor = (b[19]<<8 | b[20])
\* and alarm = (b[21] = 0xFF and b[22] = 0xFF), W being the word with the low
\* register first; raw 2300 is 230.0 V, raw 1500 is 1.5 A, raw 12345 is
\* 12.345 kWh (values in thousandths).
C11_ParseLayout ==
    (pc = "parsed") =>
        /\ _last_reading.ok
        /\ _last_reading.voltage = ((At(buffer, 3) * 256) + At(buffer, 4)) * 100
        /\ _last_reading.current = Word(buffer, 5)
        /\ _last_reading.power_active = Word(buffer, 9) * 100
        /\ _last_reading.energy_active = Word(buffer, 13)
        /\ _last_reading.frequency = ((At(buffer, 17) * 256) + At(buffer, 18)) * 100
        /\ _last_reading.power_factor = ((At(buffer, 19) * 256) + At(buffer, 20)) * 1000
        /\ _last_reading.alarm = ((At(buffer, 21) = 255) /\ (At(buffer, 22) = 255))
        /\ (SubSeq(buffer, 4, 5) = <<8, 252>>) => (_last_reading.voltage = 230000)
        /\ (SubSeq(buffer, 6, 9) = <<5, 220, 0, 0>>) => (_last_reading.current = 1500)
        /\ (SubSeq(buffer, 14, 17) = <<48, 57, 0, 0>>) => (_last_reading.energy_active = 12345)

\* the reply with raw voltage 2300, current 1500 and energy 12345 was parsed
C11_Witness ==
    /\ pc = "parsed"
    /\ SubSeq(buffer, 4, 9) = <<8, 252, 5, 220, 0, 0>>
    /\ SubSeq(buffer, 14, 17) = <<48, 57, 0, 0>>
    /\ _last_reading.voltage = 230000
    /\ _last_reading.current = 1500
    /\ _last_reading.energy_active = 12345

\* C12: round trip -- for a request the builder finalized with room for the
\* checksum, crc16modbus over all bytes but the last two has its low byte in
\* the second-to-last and its high byte in the last byte; a peer that echoes
\* a 0x06 or 0x42 request verbatim passes the CRC validation and the
\* exchange reports success.
C12_CrcRoundTrip ==
    (request.locked /\ (request.size <= BufferSize)) =>
        /\ LET crc == crc16modbus(request.buffer, request.size - 2)
           IN /\ crc % 256 = Frame(request)[request.size - 1]
              /\ crc \div 256 = Frame(request)[request.size]
        /\ (/\ pc = "done"
            /\ At(request.buffer, 1) \in {WriteCode, ResetEnergyCode}
            /\ stream = Frame(request)) =>
               /\ outcome = "callback"
               /\ called
               /\ result

\* a reset request with two fields appended was echoed
C12_Witness ==
    /\ pc = "done"
    /\ request.locked
    /\ At(request.buffer, 1) = ResetEnergyCode
    /\ Len(calls) = 3
    /\ calls[1].op = "add16"
    /\ calls[2].op = "add8"
    /\ stream = Frame(request)
    /\ result

\* the reference Modbus CRC16; XOR is taken bit by bit
RefBit(n, i) == (n \div (2 ^ i)) % 2

RECURSIVE RefXor(_, _, _)
RefXor(a, b, i) ==
    IF i > 15 THEN 0
    ELSE (IF RefBit(a, i) = RefBit(b, i) THEN 0 ELSE 2 ^ i) + RefXor(a, b, i + 1)

RECURSIVE RefSteps(_, _)
RefSteps(r, n) ==
    IF n = 0 THEN r
    ELSE RefSteps(IF r % 2 = 1 THEN RefXor(r \div 2, 40961, 0) ELSE r \div 2, n - 1)

RECURSIVE RefFold(_, _)
RefFold(r, data) ==
    IF data = << >> \/ r < 0 THEN r
    ELSE RefFold(RefSteps(RefXor(r, Head(data), 0), 8), Tail(data))

RefCrc(data) == RefFold(65535, data)

\* C13: crc16modbus returns the reference Modbus CRC16 of its input (0xFFFF
\* at the start, each byte XORed into the low byte, 8 shifts right with XOR
\* 0xA001 when the bit shifted out is 1), leaves its input as it is, and
\* gives 0x6464 for [0xF8, 0x04, 0x00, 0x00, 0x00, 0x0A].
C13_CrcReference ==
    (pc = "crcdone") =>
        /\ ret = RefCrc(buffer)
        /\ ret = crc16modbus(buffer, bytes)
        /\ ret \in 0..65535
        /\ (buffer = <<248, 4, 0, 0, 0, 10>>) => (ret = 25700)

\* the CRC of the read request
C13_Witness ==
    /\ pc = "crcdone"
    /\ buffer = <<248, 4, 0, 0, 0, 10>>
    /\ ret = 25700

\* C14: once end() has locked the builder, a later add(uint8_t),
\* add(uint16_t) or end() leaves buffer, size and locked as they are.
C14_LockedIsFinal ==
    [][(request.locked /\ calls' # calls) =>
          /\ request'.buffer = request.buffer
          /\ request'.size = request.size
          /\ request'.locked = request.locked
          /\ request' = request]_vars

\* end(), then an append, then end() again
C14_Witness ==
    /\ Len(calls) = 3
    /\ calls[1].op = "end"
    /\ calls[2].op \in {"add8", "add16"}
    /\ calls[3].op = "end"
    /\ request.locked
    /\ request.size <= BufferSize

\* C15: provided the clock advances the read loop is left; the loop check
\* leaves the loop exactly when the count has reached the expected length or
\* the clock has advanced by the read timeout since loop entry, whatever
\* the transport delivers, and no byte is read behind that check.
C15_LoopTerminates ==
    /\ <>(pc \in {"classify", "done"})
    /\ [][(pc = "loop" /\ pc' # pc) =>
            /\ (pc' = "classify") <=> (bytes >= expect \/ now - ts >= ReadTimeout)
            /\ (pc' = "classify" /\ now - ts < ReadTimeout) => (bytes = expect)]_vars
    /\ [][(bytes' # bytes \/ buffer' # buffer \/ expect' # expect) =>
            (bytes < expect /\ pc = "read")]_vars

\* the loop left at the timeout with a partial frame
C15_Witness ==
    /\ pc = "done"
    /\ 0 < bytes /\ bytes < expect
    /\ now - ts >= ReadTimeout
    /\ outcome = "other"

\* what the line delivered ends in a well-formed reply to the request: the
\* address, the function code, modbusExpect(request) bytes, a valid CRC
DeliveredReply ==
    SubSeq(stream, Len(stream) - modbusExpect(request) + 1, Len(stream))

ReplyDelivered ==
    /\ modbusExpect(request) > 0
    /\ Len(stream) >= modbusExpect(request)
    /\ DeliveredReply[1] = _address
    /\ DeliveredReply[2] = At(request.buffer, 1)
    /\ CrcValid(DeliveredReply)

\* C16: whatever stray bytes come first, bytes equal to the device address
\* included, a well-formed reply behind them makes the exchange succeed and
\* the consumer gets exactly that reply.
C16_StraysNeverPrevent ==
    (pc = "done" /\ ReplyDelivered) =>
        /\ outcome = "callback"
        /\ called
        /\ buffer = DeliveredReply

\* C17: behind the read loop the first matching rule decides: (1) bytes
\* differs from expect: SENSOR_ERROR_OTHER; (2) the CRC over all but the last
\* two bytes differs from them, low byte first: SENSOR_ERROR_CRC, another
\* code than that of rule 1; (3) bit 0x80 of the second byte: protocol
\* exception, no error recorded; (4) otherwise the callback is called.  The
\* callback is not called under rules 1 to 3, and a 5-byte exception frame
\* with a wrong CRC is a CRC error.
C17_ClassificationOrder ==
    /\ SENSOR_ERROR_CRC # SENSOR_ERROR_OTHER
    /\ (pc = "done") =>
          /\ IF bytes # expect
             THEN outcome = "other" /\ _error = SENSOR_ERROR_OTHER /\ ~called
             ELSE IF ~CrcValid(buffer)
             THEN outcome = "crc" /\ _error = SENSOR_ERROR_CRC /\ ~called
             ELSE IF (buffer[2] \div 128) % 2 = 1
             THEN outcome = "exception" /\ _error = SENSOR_ERROR_OK /\ ~called
             ELSE outcome = "callback" /\ _error = SENSOR_ERROR_OK /\ called
          /\ (bytes = 5 /\ expect = 5 /\ ~CrcValid(buffer)) => (outcome = "crc")

\* an exception frame with a wrong CRC was read in full
C17_Witness ==
    /\ pc = "done"
    /\ bytes = 5 /\ expect = 5
    /\ buffer[2] = At(request.buffer, 1) + ErrorMask
    /\ ~CrcValid(buffer)
    /\ outcome = "crc"
    /\ _error = SENSOR_ERROR_CRC

\* the register count of a request: bytes 4 and 5, big-endian
RegisterCount(b) == (b.buffer[5] * 256) + b.buffer[6]

\* the exchange on a locked builder read nothing and called nothing
NothingRead ==
    /\ written = <<Frame(request)>>
    /\ expect = 0 /\ bytes = 0 /\ buffer = << >>
    /\ line = stream
    /\ outcome = "nothing"
    /\ ~called /\ ~result
    /\ _error = SENSOR_ERROR_OK

\* C18 as stated: on a finalized request modbusExpect returns 3 + 2 * count
\* + 2 for function 0x04, the request's length for 0x06 and 0x42, 0 for any
\* other function code, and an exchange with 0 reads nothing and calls
\* nothing.
C18_ExpectAsStated ==
    request.locked =>
        /\ modbusExpect(request) =
              (CASE request.buffer[2] = 4 -> 3 + (2 * RegisterCount(request)) + 2
                 [] request.buffer[2] \in {6, 66} -> request.size
                 [] OTHER -> 0)
        /\ (pc = "done" /\ modbusExpect(request) = 0) => NothingRead

\* C18: on a finalized request modbusExpect returns, for function 0x04, 3 +
\* 2 * count + 2 when the request has at least 6 bytes (count the big-endian
\* value at bytes 4 and 5; 25 for the driver's read of 10 registers) and 0
\* when it is shorter; for 0x06 and 0x42 the request's length, CRC
\* included; for any other function code 0.  An exchange with 0 writes the
\* request, reads nothing and calls nothing.
C18_Expect ==
    /\ request.locked =>
          /\ modbusExpect(request) =
                (CASE request.buffer[2] = 4 /\ request.size >= 6 ->
                         3 + (2 * RegisterCount(request)) + 2
                   [] request.buffer[2] = 4 /\ request.size < 6 -> 0
                   [] request.buffer[2] \in {6, 66} -> request.size
                   [] OTHER -> 0)
          /\ (pc = "done" /\ modbusExpect(request) = 0) => NothingRead
          /\ (pc = "done" /\ modbusExpect(request) # 0) => (expect # 0 /\ outcome # "nothing")
    /\ (request = ReadRequest(DefaultAddress)) => (modbusExpect(request) = 25)

\* a finalized 0x04 request of four bytes went through the exchange
C18_Witness ==
    /\ pc = "done"
    /\ request.locked
    /\ request.buffer[2] = 4
    /\ request.size = 4
    /\ NothingRead

\* the call a step has made on the builder
LastCall == calls'[Len(calls')]

\* after the step the builder holds the bytes seq at positions size.. and
\* is otherwise the same
Appended(seq) ==
    /\ request'.size = request.size + Len(seq)
    /\ \A i \in 1..BufferSize :
          request'.buffer[i] =
             IF i > request.size /\ i <= request.size + Len(seq)
             THEN seq[i - request.size]
             ELSE request.buffer[i]
    /\ request'.locked = request.locked
    /\ request'.oob = request.oob

C20_BuilderInBounds ==
    /\ request.size <= BufferSize
    /\ ~request.oob

\* C21: in every state of the read loop of a read, reset or address
\* exchange 0 <= bytes <= expect <= 25, expect is modbusExpect(request) or 5,
\* every byte is stored at an index below 25, byte 0 is the device address
\* and byte 1 the function code of the request, with or without bit 0x80.
C21_LoopInvariant ==
    /\ [](/\ 0 <= bytes /\ bytes <= expect /\ expect <= 25
          /\ expect \in {modbusExpect(request), 5}
          /\ Len(buffer) = bytes
          /\ (bytes >= 1) => (buffer[1] = _address)
          /\ (bytes >= 2) => (buffer[2] \in {request.buffer[2], request.buffer[2] + 128}))
    /\ [][(buffer' # buffer /\ buffer' # << >>) =>
            /\ bytes < 25
            /\ buffer' = Append(buffer, Head(line))
            /\ bytes' = bytes + 1]_vars

\* the loop of a reset exchange has stored the first two bytes of an
\* exception frame behind a stray address byte
C21_Witness ==
    /\ pc \in {"loop", "read"}
    /\ request.buffer[2] = 66
    /\ bytes = 2
    /\ buffer[2] = 194
    /\ expect = 5
    /\ stream[1] = _address /\ stream[2] = _address

\* C22: whenever the callback is called, the buffer it gets has the length
\* modbusExpect computed for the request (25, 4 or 8, never the 5 of an
\* exception frame), starts with the device address and the function code
\* of the request without bit 0x80 and ends in the valid CRC of the bytes
\* before; parseReading is given 25 bytes by the read exchange and does not
\* take its length-mismatch branch.
C22_CallbackGetsReply ==
    (pc = "done" /\ called) =>
        /\ bytes = modbusExpect(request)
        /\ expect = modbusExpect(request)
        /\ Len(buffer) = bytes
        /\ bytes \in {25, 4, 8}
        /\ buffer[1] = _address
        /\ buffer[2] = request.buffer[2]
        /\ (buffer[2] \div 128) % 2 = 0
        /\ CrcValid(buffer)
        /\ (request.buffer[2] = 4) =>
              /\ bytes = 25
              /\ parseReading(buffer, bytes).ok
              /\ _last_reading.ok

\* the callback of a read exchange was called on a reply behind stray bytes
C22_Witness ==
    /\ pc = "done"
    /\ called
    /\ request.buffer[2] = 4
    /\ Len(stream) > 25
    /\ bytes = 25
    /\ _last_reading.ok

\* a step that is a reset or an address exchange: the frame it wrote
ControlExchange ==
    /\ ExchangeStep
    /\ written'[Len(written')][2] \in {66, 6}

\* C23: a reset exchange and an address exchange, whatever comes back (the
\* echo, another echo, an exception frame, a CRC error, nothing), leave
\* _last_reading with its ok flag, _energy_delta and _last_update as they
\* were; a reset that was echoed does not drop or zero the retained
\* energy_active.
C23_ControlKeepsReading ==
    [][ControlExchange =>
          /\ _last_reading' = _last_reading
          /\ _last_reading'.ok = _last_reading.ok
          /\ _last_reading'.energy_active = _last_reading.energy_active
          /\ _energy_delta' = _energy_delta
          /\ _last_update' = _last_update
          /\ outcome' \in {"callback", "exception", "crc", "other"}]_vars

\* the reset was echoed and the peripheral's counter is 0 while the reading
\* of the poll before is retained
C23_Witness ==
    /\ pc = "poll"
    /\ written # << >>
    /\ LastWritten[2] = ResetEnergyCode
    /\ outcome = "callback"
    /\ result
    /\ dev_energy = 0
    /\ _last_reading.ok
    /\ _last_reading.energy_active > 0

\* C24: every pre() returns, whatever the transport does, a transport that
\* has a byte for every read included: both flush() calls, the reset
\* exchange and the read exchange finish.
C24_PreTerminates == <>(pc = "return")

====
